---- MODULE Spec2Model ----
(***************************************************************************)
(* Byte Pair Encoding engine of utils/bpe.py (class BPE).                  *)
(*                                                                         *)
(* A Python str is modelled as a sequence of one-character strings, so     *)
(* that join, split, replace and endswith work on text as they do in the   *)
(* code.  A dict is modelled as a sequence of entries in insertion order,  *)
(* which is the order Python iterates it in.                               *)
(***************************************************************************)
EXTENDS Integers, Sequences, FiniteSets

(***************************************************************************)
(* Bounds of the model.                                                    *)
(***************************************************************************)
MaxWordLen == 2
MaxCorpusLen == 2
MaxMerges == 2
MaxFits == 2
MaxTextLen == 4
MaxTokens == 2
MaxEncodedWords == 1
TrainWordLen == 3
TrainCorpusLen == 3
SmallLen == 1

Alphabet == {"a", "b"}
Whitespace == {" "}

(***************************************************************************)
(* Text helpers: the str methods the code uses.                            *)
(***************************************************************************)
\* the literal '</w>'
EOW == <<"<", "/", "w", ">">>

\* the literal ' ' used as separator in ' '.join
SP == <<" ">>

\* sep.join(xs)
RECURSIVE Join(_, _)
Join(sep, xs) ==
    IF xs = <<>> THEN <<>>
    ELSE IF Len(xs) = 1 THEN xs[1]
    ELSE xs[1] \o sep \o Join(sep, Tail(xs))

\* list(word): the characters of a str, each a str of length one
List(word) == [i \in 1..Len(word) |-> <<word[i]>>]

\* s.strip()
RECURSIVE LStrip(_)
LStrip(s) ==
    IF s # <<>> /\ Head(s) \in Whitespace THEN LStrip(Tail(s)) ELSE s

RECURSIVE RStrip(_)
RStrip(s) ==
    IF s # <<>> /\ s[Len(s)] \in Whitespace
    THEN RStrip(SubSeq(s, 1, Len(s) - 1)) ELSE s

Strip(s) == RStrip(LStrip(s))

\* s.split(): fields between runs of whitespace, no empty field
RECURSIVE SplitFrom(_, _, _)
SplitFrom(s, cur, out) ==
    IF s = <<>>
    THEN IF cur = <<>> THEN out ELSE Append(out, cur)
    ELSE IF Head(s) \in Whitespace
         THEN SplitFrom(Tail(s), <<>>, IF cur = <<>> THEN out ELSE Append(out, cur))
         ELSE SplitFrom(Tail(s), Append(cur, Head(s)), out)

Split(s) == SplitFrom(s, <<>>, <<>>)

\* s.endswith(suffix)
EndsWith(s, suffix) ==
    /\ Len(s) >= Len(suffix)
    /\ SubSeq(s, Len(s) - Len(suffix) + 1, Len(s)) = suffix

\* s.replace(old, new): leftmost non-overlapping occurrences, old not empty
RECURSIVE Replace(_, _, _)
Replace(s, old, new) ==
    IF Len(s) < Len(old) THEN s
    ELSE IF SubSeq(s, 1, Len(old)) = old
         THEN new \o Replace(SubSeq(s, Len(old) + 1, Len(s)), old, new)
         ELSE <<Head(s)>> \o Replace(Tail(s), old, new)

(***************************************************************************)
(* Dict helpers: a dict is a sequence of [key, val] in insertion order.    *)
(***************************************************************************)
HasKey(d, k) == \E i \in 1..Len(d) : d[i].key = k

IndexOf(d, k) == CHOOSE i \in 1..Len(d) : d[i].key = k

\* d[k] = v
DictSet(d, k, v) ==
    IF HasKey(d, k)
    THEN [d EXCEPT ![IndexOf(d, k)] = [key |-> k, val |-> v]]
    ELSE Append(d, [key |-> k, val |-> v])

\* d[k] += n on a defaultdict(int) or a Counter
DictAdd(d, k, n) ==
    IF HasKey(d, k)
    THEN [d EXCEPT ![IndexOf(d, k)] = [key |-> k, val |-> @.val + n]]
    ELSE Append(d, [key |-> k, val |-> n])

\* Counter(xs)
RECURSIVE CounterFrom(_, _)
CounterFrom(xs, d) ==
    IF xs = <<>> THEN d ELSE CounterFrom(Tail(xs), DictAdd(d, Head(xs), 1))

Counter(xs) == CounterFrom(xs, <<>>)

\* max(d, key=d.get): the first key, in iteration order, of maximal value
MaxKey(d) ==
    LET i == CHOOSE i \in 1..Len(d) :
                 /\ \A j \in 1..Len(d) : d[j].val <= d[i].val
                 /\ \A j \in 1..(i - 1) : d[j].val < d[i].val
    IN d[i].key

(***************************************************************************)
(* BPE.get_stats, BPE.merge_vocab                                          *)
(***************************************************************************)
\* range(len(symbols)-1), shifted to the 1-based indices of a sequence
StatsRangeShort(symbols) == 1..(Len(symbols) - 2)

StatsRange(symbols) == 1..(Len(symbols) - 1)

\* the inner loop of get_stats over one vocabulary entry
RECURSIVE StatsWord(_, _, _, _)
StatsWord(symbols, freq, i, pairs) ==
    IF i \notin StatsRange(symbols) THEN pairs
    ELSE StatsWord(symbols, freq, i + 1,
                   DictAdd(pairs, <<symbols[i], symbols[i + 1]>>, freq))

RECURSIVE StatsFrom(_, _)
StatsFrom(vocab, pairs) ==
    IF vocab = <<>> THEN pairs
    ELSE StatsFrom(Tail(vocab),
                   StatsWord(Split(Head(vocab).key), Head(vocab).val, 1, pairs))

get_stats(vocab) == StatsFrom(vocab, <<>>)

RECURSIVE MergeFrom(_, _, _, _)
MergeFrom(vocab, i, bigram, new_vocab) ==
    IF i > Len(vocab) THEN new_vocab
    ELSE MergeFrom(vocab, i + 1, bigram,
                   DictSet(new_vocab,
                           Replace(vocab[i].key, Join(SP, bigram), Join(<<>>, bigram)),
                           vocab[i].val))

merge_vocab(pair, vocab) == MergeFrom(vocab, 1, pair, <<>>)

(***************************************************************************)
(* BPE.fit                                                                 *)
(***************************************************************************)
\* Counter([' '.join(word) + ' </w>' for word in corpus])
InitialVocab(corpus) ==
    Counter([i \in 1..Len(corpus) |-> Join(SP, List(corpus[i])) \o SP \o EOW])

\* for _ in range(self.num_merges): the loop goes on while the counter is in range
FitLoopCondOffByOne(i, n) == i <= n

FitLoopCond(i, n) == i < n

\* self.bpe_merges.append(best)
AppendRuleFront(merges, best) == <<best>> \o merges

AppendRule(merges, best) == Append(merges, best)

(***************************************************************************)
(* BPE.encode_word, BPE.encode                                             *)
(***************************************************************************)
\* list(word) + ['</w>']
InitialSymbols(word) == List(word) \o <<EOW>>

\* [(word[i], word[i+1]) for i in range(len(word)-1)]
PairsOf(word) == [i \in 1..(Len(word) - 1) |-> <<word[i], word[i + 1]>>]

InSeq(x, xs) == \E i \in 1..Len(xs) : xs[i] = x

\* [pair for pair in pairs if pair in self.bpe_merges]
Mergeable(word, merges) == SelectSeq(PairsOf(word), LAMBDA p : InSeq(p, merges))

\* the first merge of self.bpe_merges that is in pairs; <<>> stands for None
MergePairLeftmost(word, merges) ==
    IF Mergeable(word, merges) = <<>> THEN <<>> ELSE Mergeable(word, merges)[1]

MergePair(word, merges) ==
    IF \E k \in 1..Len(merges) : InSeq(merges[k], PairsOf(word))
    THEN merges[CHOOSE k \in 1..Len(merges) :
                    /\ InSeq(merges[k], PairsOf(word))
                    /\ \A j \in 1..(k - 1) : ~InSeq(merges[j], PairsOf(word))]
    ELSE <<>>

\* the scan that builds new_word, from position i (1-based)
RECURSIVE MergeScanNoSkip(_, _, _, _)
MergeScanNoSkip(word, i, merge_pair, new_word) ==
    IF i > Len(word) THEN new_word
    ELSE IF i < Len(word) /\ <<word[i], word[i + 1]>> = merge_pair
         THEN MergeScanNoSkip(word, i + 1, merge_pair, Append(new_word, word[i] \o word[i + 1]))
         ELSE MergeScanNoSkip(word, i + 1, merge_pair, Append(new_word, word[i]))

RECURSIVE MergeScan(_, _, _, _)
MergeScan(word, i, merge_pair, new_word) ==
    IF i > Len(word) THEN new_word
    ELSE IF i < Len(word) /\ <<word[i], word[i + 1]>> = merge_pair
         THEN MergeScan(word, i + 2, merge_pair, Append(new_word, word[i] \o word[i + 1]))
         ELSE MergeScan(word, i + 1, merge_pair, Append(new_word, word[i]))

\* if word[-1] == '</w>': word = word[:-1]
StripSentinel(word) ==
    IF word[Len(word)] = EOW THEN SubSeq(word, 1, Len(word) - 1) ELSE word

(***************************************************************************)
(* BPE.decode_word, BPE.decode                                             *)
(***************************************************************************)
decode_word_no_strip(tokens) == Join(<<>>, tokens)

decode_word_always_strip(tokens) ==
    LET word == Join(<<>>, tokens) IN SubSeq(word, 1, Len(word) - 4)

decode_word(tokens) ==
    LET word == Join(<<>>, tokens)
    IN IF EndsWith(word, EOW) THEN SubSeq(word, 1, Len(word) - 4) ELSE word

decode(encoded) == [i \in 1..Len(encoded) |-> decode_word(encoded[i])]

(***************************************************************************)
(* Inputs of the calls.                                                    *)
(***************************************************************************)
SeqsUpTo(S, n) == UNION {[1..k -> S] : k \in 0..n}

\* corpus words: strings without whitespace
CorpusWords == SeqsUpTo(Alphabet, MaxWordLen)

Corpora == SeqsUpTo(CorpusWords, MaxCorpusLen)

\* the larger corpora of the training runs
TrainCorpora == SeqsUpTo(SeqsUpTo(Alphabet, TrainWordLen), TrainCorpusLen)

\* texts that hold the sentinel's characters
SentinelTexts == {pre \o EOW \o post : pre \in {<<>>, <<"a">>}, post \in {<<>>, <<"b">>}}

Texts == SeqsUpTo(Alphabet \cup Whitespace, MaxTextLen) \cup SentinelTexts

\* arguments of decode that do not come from encode
DecodeTokens == {<<"a">>, EOW, <<"a">> \o EOW}

DecodeInputs == SeqsUpTo(SeqsUpTo(DecodeTokens, MaxTokens), MaxEncodedWords)

\* the small arguments of the runs that call in any order
SmallCorpora == SeqsUpTo(SeqsUpTo(Alphabet, SmallLen), SmallLen)

SmallTexts == SeqsUpTo(Alphabet \cup Whitespace, SmallLen)

SmallDecodeInputs ==
    {[i \in 1..Len(ts) |-> <<ts[i]>>] : ts \in SeqsUpTo(DecodeTokens, SmallLen)}

\* the characters of the words of a corpus
CharsOf(c) == UNION {{c[i][j] : j \in 1..Len(c[i])} : i \in 1..Len(c)}

(***************************************************************************)
(* State.                                                                  *)
(***************************************************************************)
VARIABLES
    num_merges,      \* self.num_merges
    bpe_merges,      \* self.bpe_merges
    pc,              \* the call in progress, or the call that returned last
    corpus,          \* fit: the argument
    vocab,           \* fit: the local vocab
    iter,            \* fit: iterations of the loop started so far
    text,            \* encode: the argument
    pending,         \* encode: the words the comprehension has not reached yet
    word,            \* encode_word: the local word
    encoded,         \* encode: the result
    dec_in,          \* decode: the argument
    decoded,         \* decode: the result
    merges_at_call,  \* self.bpe_merges when the current or last call began
    seen,            \* the characters of all corpora given to fit
    fits             \* the number of fit calls

vars == <<num_merges, bpe_merges, pc, corpus, vocab, iter, text, pending, word,
          encoded, dec_in, decoded, merges_at_call, seen, fits>>

Idle == pc \in {"new", "fit_done", "encode_done", "decode_done", "roundtrip_done"}

\* BPE.__init__ with num_merges up to n
InitUpTo(n) ==
    /\ num_merges \in 0..n
    /\ bpe_merges = <<>>
    /\ pc = "new"
    /\ corpus = <<>> /\ vocab = <<>> /\ iter = 0
    /\ text = <<>> /\ pending = <<>> /\ word = <<>> /\ encoded = <<>>
    /\ dec_in = <<>> /\ decoded = <<>>
    /\ merges_at_call = <<>>
    /\ seen = {}
    /\ fits = 0

Init == InitUpTo(MaxMerges)

InitSmall == InitUpTo(SmallLen)

(***************************************************************************)
(* fit                                                                     *)
(***************************************************************************)
FitCall(c) ==
    /\ Idle
    /\ fits < MaxFits
    /\ pc' = "fit"
    /\ corpus' = c
    /\ vocab' = InitialVocab(c)
    /\ iter' = 0
    /\ merges_at_call' = bpe_merges
    /\ seen' = seen \cup CharsOf(c)
    /\ fits' = fits + 1
    /\ text' = <<>> /\ pending' = <<>> /\ word' = <<>> /\ encoded' = <<>>
    /\ dec_in' = <<>> /\ decoded' = <<>>
    /\ UNCHANGED <<num_merges, bpe_merges>>

\* one iteration of the loop: lines 51-56 without the break
FitIter ==
    /\ pc = "fit"
    /\ FitLoopCond(iter, num_merges)
    /\ get_stats(vocab) # <<>>
    /\ LET best == MaxKey(get_stats(vocab))
       IN /\ vocab' = merge_vocab(best, vocab)
          /\ bpe_merges' = AppendRule(bpe_merges, best)
    /\ iter' = iter + 1
    /\ UNCHANGED <<num_merges, pc, corpus, text, pending, word, encoded, dec_in,
                   decoded, merges_at_call, seen, fits>>

\* if not pairs: break
FitBreak ==
    /\ pc = "fit"
    /\ FitLoopCond(iter, num_merges)
    /\ get_stats(vocab) = <<>>
    /\ pc' = "fit_done"
    /\ UNCHANGED <<num_merges, bpe_merges, corpus, vocab, iter, text, pending, word,
                   encoded, dec_in, decoded, merges_at_call, seen, fits>>

\* the range is exhausted
FitReturn ==
    /\ pc = "fit"
    /\ ~FitLoopCond(iter, num_merges)
    /\ pc' = "fit_done"
    /\ UNCHANGED <<num_merges, bpe_merges, corpus, vocab, iter, text, pending, word,
                   encoded, dec_in, decoded, merges_at_call, seen, fits>>

(***************************************************************************)
(* encode                                                                  *)
(***************************************************************************)
\* encode is entered with text t
EncodeEnter(t) ==
    /\ pc' = "encode"
    /\ text' = t
    /\ pending' = Split(Strip(t))
    /\ encoded' = <<>>
    /\ word' = <<>>
    /\ merges_at_call' = bpe_merges
    /\ dec_in' = <<>> /\ decoded' = <<>>
    /\ UNCHANGED <<num_merges, bpe_merges, seen, fits>>

\* encode of any text; what the last fit left behind is forgotten
EncodeCall(t) ==
    /\ Idle
    /\ EncodeEnter(t)
    /\ corpus' = <<>> /\ vocab' = <<>> /\ iter' = 0

\* encode of the i-th word of the corpus that fit was given last
EncodeTrainingWord(i) ==
    /\ pc \in {"fit_done", "encode_done"}
    /\ i \in 1..Len(corpus)
    /\ EncodeEnter(corpus[i])
    /\ UNCHANGED <<corpus, vocab, iter>>

\* self.encode_word(word) is entered for the next word of the text
EncodeWordCall ==
    /\ pc = "encode"
    /\ pending # <<>>
    /\ pc' = "encode_word"
    /\ word' = InitialSymbols(Head(pending))
    /\ UNCHANGED <<num_merges, bpe_merges, corpus, vocab, iter, text, pending,
                   encoded, dec_in, decoded, merges_at_call, seen, fits>>

\* the two breaks of the while loop: no mergeable pair, or no merge_pair
EncodeLoopExit(w, merges) ==
    \/ Mergeable(w, merges) = <<>>
    \/ MergePair(w, merges) = <<>>

\* one iteration of the while loop that merges
EncodeWordMerge ==
    /\ pc = "encode_word"
    /\ ~EncodeLoopExit(word, bpe_merges)
    /\ word' = MergeScan(word, 1, MergePair(word, bpe_merges), <<>>)
    /\ UNCHANGED <<num_merges, bpe_merges, pc, corpus, vocab, iter, text, pending,
                   encoded, dec_in, decoded, merges_at_call, seen, fits>>

\* the loop is left, the sentinel stripped, the word returned to encode
EncodeWordReturn ==
    /\ pc = "encode_word"
    /\ EncodeLoopExit(word, bpe_merges)
    /\ encoded' = Append(encoded, StripSentinel(word))
    /\ pending' = Tail(pending)
    /\ word' = <<>>
    /\ pc' = "encode"
    /\ UNCHANGED <<num_merges, bpe_merges, corpus, vocab, iter, text, dec_in,
                   decoded, merges_at_call, seen, fits>>

EncodeReturn ==
    /\ pc = "encode"
    /\ pending = <<>>
    /\ pc' = "encode_done"
    /\ UNCHANGED <<num_merges, bpe_merges, corpus, vocab, iter, text, pending, word,
                   encoded, dec_in, decoded, merges_at_call, seen, fits>>

(***************************************************************************)
(* decode                                                                  *)
(***************************************************************************)
\* decode of any list of token lists
DecodeCall(e) ==
    /\ Idle
    /\ pc' = "decode_done"
    /\ dec_in' = e
    /\ decoded' = decode(e)
    /\ merges_at_call' = bpe_merges
    /\ corpus' = <<>> /\ vocab' = <<>> /\ iter' = 0
    /\ text' = <<>> /\ encoded' = <<>>
    /\ UNCHANGED <<num_merges, bpe_merges, pending, word, seen, fits>>

\* decode of what encode returned, as the test does
DecodeEncoded ==
    /\ pc = "encode_done"
    /\ pc' = "roundtrip_done"
    /\ dec_in' = encoded
    /\ decoded' = decode(encoded)
    /\ merges_at_call' = bpe_merges
    /\ UNCHANGED <<num_merges, bpe_merges, corpus, vocab, iter, text, pending, word,
                   encoded, seen, fits>>

\* calls in any order, fit up to MaxFits times; a call begins only when no
\* call is in progress: the guard stands before the choice of the argument
Next ==
    \/ Idle /\ \E c \in SmallCorpora : FitCall(c)
    \/ FitIter
    \/ FitBreak
    \/ FitReturn
    \/ Idle /\ \E t \in SmallTexts : EncodeCall(t)
    \/ EncodeWordCall
    \/ EncodeWordMerge
    \/ EncodeWordReturn
    \/ EncodeReturn
    \/ Idle /\ \E e \in SmallDecodeInputs : DecodeCall(e)
    \/ DecodeEncoded

Spec == InitSmall /\ [][Next]_vars

\* a newly constructed engine is trained at most once and then used for one
\* call: encode of any text, with or without decode of the result, or decode
\* of any list of token lists (decode reads nothing of the engine)
OnceNext ==
    \/ pc = "new" /\ \E c \in Corpora : FitCall(c)
    \/ FitIter
    \/ FitBreak
    \/ FitReturn
    \/ pc \in {"new", "fit_done"} /\ \E t \in Texts : EncodeCall(t)
    \/ EncodeWordCall
    \/ EncodeWordMerge
    \/ EncodeWordReturn
    \/ EncodeReturn
    \/ pc = "new" /\ \E e \in DecodeInputs : DecodeCall(e)
    \/ DecodeEncoded

OnceSpec == Init /\ [][OnceNext]_vars

\* a newly constructed engine is trained once, then encodes the words it was
\* trained on
TrainNext ==
    \/ pc = "new" /\ \E c \in TrainCorpora : FitCall(c)
    \/ FitIter
    \/ FitBreak
    \/ FitReturn
    \/ \E i \in 1..Len(corpus) : EncodeTrainingWord(i)
    \/ EncodeWordCall
    \/ EncodeWordMerge
    \/ EncodeWordReturn
    \/ EncodeReturn

TrainSpec == Init /\ [][TrainNext]_vars

\* an encode call in progress runs to its return: the engine is synchronous
FairSpec ==
    /\ OnceSpec
    /\ WF_vars(EncodeWordCall \/ EncodeWordMerge \/ EncodeWordReturn \/ EncodeReturn)

(***************************************************************************)
(* Vocabulary of the properties.                                           *)
(***************************************************************************)
\* sub occurs in s as a contiguous piece
Contains(s, sub) ==
    \E i \in 1..(Len(s) - Len(sub) + 1) : SubSeq(s, i, i + Len(sub) - 1) = sub

\* symbols with every occurrence of the two symbols of pair p, next to each
\* other, replaced by their concatenation, from the left
RECURSIVE ApplyRule(_, _)
ApplyRule(symbols, p) ==
    IF Len(symbols) < 2 THEN symbols
    ELSE IF <<symbols[1], symbols[2]>> = p
         THEN <<symbols[1] \o symbols[2]>> \o ApplyRule(SubSeq(symbols, 3, Len(symbols)), p)
         ELSE <<symbols[1]>> \o ApplyRule(Tail(symbols), p)

IsPrefix(s, t) == Len(s) <= Len(t) /\ SubSeq(t, 1, Len(s)) = s

Min(a, b) == IF a <= b THEN a ELSE b

\* s without leading and trailing whitespace, every inner run of whitespace
\* replaced by one space: position i is kept when it holds a character of a
\* word, or is the last whitespace of a run that separates two words
RECURSIVE NormalizeFrom(_, _)
NormalizeFrom(s, i) ==
    IF i > Len(s) THEN <<>>
    ELSE IF s[i] \notin Whitespace THEN <<s[i]>> \o NormalizeFrom(s, i + 1)
    ELSE IF /\ i < Len(s)
            /\ s[i + 1] \notin Whitespace
            /\ \E j \in 1..(i - 1) : s[j] \notin Whitespace
         THEN SP \o NormalizeFrom(s, i + 1)
         ELSE NormalizeFrom(s, i + 1)

Normalize(s) == NormalizeFrom(s, 1)

\* the tokens of all encoded words
TokensOf(enc) == UNION {{enc[i][j] : j \in 1..Len(enc[i])} : i \in 1..Len(enc)}

(***************************************************************************)
(* C1  Round trip.  After fit, for a text whose words do not hold the      *)
(* sentinel text, decode(encode(text)) joined by single spaces is the text *)
(* with leading and trailing whitespace removed and inner whitespace runs  *)
(* collapsed to one space.                                                 *)
(***************************************************************************)
RoundTrip ==
    (pc = "roundtrip_done" /\ ~Contains(text, EOW))
        => Join(SP, decoded) = Normalize(text)

\* a round trip of two words apart by a whitespace run, one of them encoded
\* with the sentinel merged into its last token
RoundTripWitness ==
    /\ pc = "roundtrip_done"
    /\ ~Contains(text, EOW)
    /\ Len(decoded) = 2
    /\ Len(Normalize(text)) < Len(text)
    /\ \E t \in TokensOf(encoded) : EndsWith(t, EOW)

(***************************************************************************)
(* C2  Rule count.  After fit returns on a newly constructed engine, the   *)
(* number of merge rules is min(num_merges, k), k being the number of      *)
(* merge iterations after which the pair statistics of the corpus are      *)
(* empty; it never exceeds num_merges, and it is 0 for an empty corpus.    *)
(***************************************************************************)
\* the number of merge iterations until the statistics of v are empty
RECURSIVE IterationsToExhaust(_)
IterationsToExhaust(v) ==
    IF get_stats(v) = <<>> THEN 0
    ELSE 1 + IterationsToExhaust(merge_vocab(MaxKey(get_stats(v)), v))

RuleCount ==
    (pc = "fit_done" /\ fits = 1)
        => /\ Len(bpe_merges) = Min(num_merges, IterationsToExhaust(InitialVocab(corpus)))
           /\ Len(bpe_merges) <= num_merges
           /\ (corpus = <<>> => Len(bpe_merges) = 0)

\* a first fit that stopped early: some rules, fewer than num_merges
RuleCountWitness ==
    /\ pc = "fit_done"
    /\ fits = 1
    /\ Len(bpe_merges) > 0
    /\ Len(bpe_merges) < num_merges

(***************************************************************************)
(* C3  Frequency-correct selection.  The rule a merge iteration of fit     *)
(* appends is an adjacent symbol pair of the current vocabulary, and its   *)
(* aggregate frequency (each entry's frequency, once per adjacent          *)
(* occurrence of the pair in the entry) is at least that of every adjacent *)
(* pair of the vocabulary; in the first iteration the same holds with the  *)
(* occurrences counted over the corpus, a duplicate word counting again.   *)
(***************************************************************************)
\* the positions of symbols at which pair p occurs
Occurrences(symbols, p) ==
    {j \in 1..(Len(symbols) - 1) : <<symbols[j], symbols[j + 1]>> = p}

AdjacentPairs(symbols) ==
    {<<symbols[j], symbols[j + 1]>> : j \in 1..(Len(symbols) - 1)}

VocabPairs(v) == UNION {AdjacentPairs(Split(v[i].key)) : i \in 1..Len(v)}

RECURSIVE AggregateFrequency(_, _)
AggregateFrequency(p, v) ==
    IF v = <<>> THEN 0
    ELSE Head(v).val * Cardinality(Occurrences(Split(Head(v).key), p))
         + AggregateFrequency(p, Tail(v))

CorpusPairs(c) == UNION {AdjacentPairs(List(c[i]) \o <<EOW>>) : i \in 1..Len(c)}

RECURSIVE CorpusFrequency(_, _)
CorpusFrequency(p, c) ==
    IF c = <<>> THEN 0
    ELSE Cardinality(Occurrences(List(Head(c)) \o <<EOW>>, p))
         + CorpusFrequency(p, Tail(c))

FrequencyCorrect ==
    [][(pc = "fit" /\ bpe_merges' # bpe_merges)
         => LET best == bpe_merges'[Len(bpe_merges')]
            IN /\ Len(bpe_merges') = Len(bpe_merges) + 1
               /\ best \in VocabPairs(vocab)
               /\ \A q \in VocabPairs(vocab) :
                      AggregateFrequency(best, vocab) >= AggregateFrequency(q, vocab)
               /\ iter = 0 =>
                      /\ best \in CorpusPairs(corpus)
                      /\ \A q \in CorpusPairs(corpus) :
                             CorpusFrequency(best, corpus) >= CorpusFrequency(q, corpus)]_vars

\* the first iteration has chosen a pair that occurs in two words of the
\* corpus, over the pair met first in the scan, which occurs once
FrequencyCorrectWitness ==
    /\ pc = "fit"
    /\ iter = 1
    /\ fits = 1
    /\ Len(corpus) = 2
    /\ Len(corpus[1]) >= 1
    /\ LET first == <<<<corpus[1][1]>>, (List(corpus[1]) \o <<EOW>>)[2]>>
       IN /\ CorpusFrequency(first, corpus) = 1
          /\ CorpusFrequency(bpe_merges[1], corpus) = 2

(***************************************************************************)
(* C4  Append-only rule sequence.  The sequence is empty at construction;  *)
(* no step changes it except by extending it; encode and decode leave it   *)
(* as it was when they were called; a fit call, a repeated one included,   *)
(* extends it by at most num_merges rules.                                 *)
(***************************************************************************)
AppendOnlyCalls ==
    /\ pc = "new" => bpe_merges = <<>>
    /\ IsPrefix(merges_at_call, bpe_merges)
    /\ pc \in {"encode", "encode_word", "encode_done", "decode_done", "roundtrip_done"}
           => bpe_merges = merges_at_call
    /\ pc \in {"fit", "fit_done"}
           => Len(bpe_merges) - Len(merges_at_call) <= num_merges

AppendOnly ==
    /\ []AppendOnlyCalls
    /\ [][IsPrefix(bpe_merges, bpe_merges')]_vars

\* a repeated fit has returned after extending a sequence that was not empty
AppendOnlyWitness ==
    /\ pc = "fit_done"
    /\ fits = 2
    /\ merges_at_call # <<>>
    /\ Len(bpe_merges) > Len(merges_at_call)

(***************************************************************************)
(* C5  Encode terminates, unknown characters included.  Every call of      *)
(* encode returns; each iteration of the merge loop of encode_word that    *)
(* merges makes the symbol sequence shorter; the loop is left exactly when *)
(* no learned rule is an adjacent pair of the symbol sequence; and every   *)
(* character of a word that no corpus given to fit held is returned as a   *)
(* token of its own.                                                       *)
(***************************************************************************)
RuleMatches(w, merges) ==
    \E k \in 1..Len(merges) : merges[k] \in AdjacentPairs(w)

\* the number of characters of the tokens before token k
OffsetOf(tokens, k) == Len(Join(<<>>, SubSeq(tokens, 1, k - 1)))

\* every unseen character of w is the single character of the token at its place
UnseenAreSingletons(w, tokens) ==
    /\ Join(<<>>, tokens) \in {w, w \o EOW}
    /\ \A k \in 1..Len(tokens) : \A i \in 1..Len(tokens[k]) :
           LET pos == OffsetOf(tokens, k) + i
           IN (pos <= Len(w) /\ w[pos] \notin seen) => tokens[k] = <<w[pos]>>

EncodeSteps ==
    /\ (pc = "encode_word" /\ pc' = "encode_word")
           => (Len(word') < Len(word) /\ RuleMatches(word, bpe_merges))
    /\ (pc = "encode_word" /\ pc' = "encode") => ~RuleMatches(word, bpe_merges)

EncodeUnseen ==
    pc = "encode_done"
        => /\ Len(encoded) = Len(Split(text))
           /\ \A n \in 1..Len(encoded) : UnseenAreSingletons(Split(text)[n], encoded[n])

EncodeTerminates ==
    /\ (pc \in {"encode", "encode_word"}) ~> (pc = "encode_done")
    /\ [][EncodeSteps]_vars
    /\ []EncodeUnseen

\* encode has returned a word with a merged token next to the token of a
\* character that fit never saw
EncodeTerminatesWitness ==
    /\ pc = "encode_done"
    /\ seen # {}
    /\ \E n \in 1..Len(encoded) :
           /\ \E k \in 1..Len(encoded[n]) : Len(encoded[n][k]) >= 2
           /\ \E k \in 1..Len(encoded[n]) :
                  Len(encoded[n][k]) = 1 /\ encoded[n][k][1] \notin seen

(***************************************************************************)
(* C6  Sentinel stripped from encoded words.  For a text whose words do    *)
(* not hold the sentinel text, no token that encode returns holds the      *)
(* sentinel text, and the tokens of each word concatenate to the word.     *)
(***************************************************************************)
SentinelStripped ==
    (pc = "encode_done" /\ ~Contains(text, EOW))
        => /\ \A t \in TokensOf(encoded) : ~Contains(t, EOW)
           /\ \A n \in 1..Len(encoded) : Join(<<>>, encoded[n]) = Split(text)[n]

(***************************************************************************)
(* C7  Idempotent decode.  As claimed: for any list of token lists E,      *)
(* decode([[w] for w in decode(E)]) = decode(E).  As amended: this holds   *)
(* when no word of decode(E) ends with the sentinel text, which is so for  *)
(* every E that encode returned for a text without the sentinel text.      *)
(***************************************************************************)
\* [[w] for w in words]
Wrap(words) == [i \in 1..Len(words) |-> <<words[i]>>]

DecodeIdempotent ==
    pc \in {"decode_done", "roundtrip_done"} => decode(Wrap(decoded)) = decoded

NoSentinelLeft(words) == \A i \in 1..Len(words) : ~EndsWith(words[i], EOW)

DecodeIdempotentPlain ==
    /\ (pc \in {"decode_done", "roundtrip_done"} /\ NoSentinelLeft(decoded))
           => decode(Wrap(decoded)) = decoded
    /\ (pc = "roundtrip_done" /\ ~Contains(text, EOW)) => NoSentinelLeft(decoded)

\* decode has stripped a sentinel from a word and left a plain word
DecodeIdempotentWitness ==
    /\ pc = "decode_done"
    /\ Len(decoded) = 1
    /\ EndsWith(Join(<<>>, dec_in[1]), EOW)
    /\ decoded[1] # <<>>
    /\ NoSentinelLeft(decoded)

(***************************************************************************)
(* C8  Rule priority in encode.  The rule an iteration of the merge loop   *)
(* of encode_word merges is, of the learned rules that are adjacent pairs  *)
(* of the symbol sequence, the one of smallest index in the rule sequence, *)
(* wherever in the word its pair is.                                       *)
(***************************************************************************)
RulePriority ==
    [][(pc = "encode_word" /\ pc' = "encode_word")
         => \E k \in 1..Len(bpe_merges) :
                /\ bpe_merges[k] \in AdjacentPairs(word)
                /\ \A j \in 1..(k - 1) : bpe_merges[j] \notin AdjacentPairs(word)
                /\ word' = ApplyRule(word, bpe_merges[k])]_vars

\* the first iteration on a word merged the rule of smaller index, though
\* the pair of a rule of larger index stood further left in the word
RulePriorityWitness ==
    /\ pc = "encode_word"
    /\ LET w == InitialSymbols(Head(pending))
       IN \E k1, k2 \in 1..Len(bpe_merges) : \E i1, i2 \in 1..(Len(w) - 1) :
              /\ k1 < k2 /\ i2 < i1
              /\ bpe_merges[k1] = <<w[i1], w[i1 + 1]>>
              /\ bpe_merges[k2] = <<w[i2], w[i2 + 1]>>
              /\ \A j \in 1..(k1 - 1) : bpe_merges[j] \notin AdjacentPairs(w)
              /\ word = ApplyRule(w, bpe_merges[k1])
              /\ word # ApplyRule(w, bpe_merges[k2])

(***************************************************************************)
(* C9  Exact merge during training.  A merge step of fit with the chosen   *)
(* pair rewrites the symbols of every vocabulary key by concatenating the  *)
(* occurrences of the pair as two whole adjacent symbols and nothing else, *)
(* and every entry keeps its frequency.                                    *)
(***************************************************************************)
ExactMerge ==
    [][(pc = "fit" /\ bpe_merges' # bpe_merges)
         => LET best == bpe_merges'[Len(bpe_merges')]
            IN /\ Len(vocab') = Len(vocab)
               /\ \A i \in 1..Len(vocab) :
                      /\ vocab'[i].val = vocab[i].val
                      /\ Split(vocab'[i].key) = ApplyRule(Split(vocab[i].key), best)]_vars

(***************************************************************************)
(* C10  Training and encoding agree.  After fit on a newly constructed     *)
(* engine, the symbol sequence encode_word reaches for a word of the       *)
(* corpus, before the sentinel is stripped, is the symbol sequence of the  *)
(* word's entry in the vocabulary that fit ended with.                     *)
(***************************************************************************)
ReplayAgrees ==
    (pc = "encode_word" /\ fits = 1 /\ EncodeLoopExit(word, bpe_merges)
       /\ \E n \in 1..Len(corpus) : corpus[n] = text)
        => \E i \in 1..Len(vocab) :
               /\ Join(<<>>, Split(vocab[i].key)) = text \o EOW
               /\ Split(vocab[i].key) = word

====
